---- MODULE Spec2Model ----
(***************************************************************************)
(* A model of the 3d-render software rendering pipeline: the pixel buffer  *)
(* (screen.rs), the rasterizer of GameWindow (game_window.rs) and the      *)
(* mesh transformation chain (transform.rs, triangle.rs, mesh.rs,          *)
(* vector.rs, matrix.rs).                                                  *)
(*                                                                         *)
(* f32 values are modelled as exact rationals <<n, d>> in lowest terms     *)
(* with d > 0; <<0, 0>> is NaN and <<1, 0>>, <<-1, 0>> are the infinities. *)
(* Sequences are 1-based, so vertex i of the source is element i + 1 here. *)
(***************************************************************************)
EXTENDS Integers, Sequences, FiniteSets, TLC

VARIABLES
    width,              \* GameWindow.width
    height,             \* GameWindow.height
    shadow_intensity,   \* GameWindow.shadow_intensity
    buffer,             \* GameWindow.buffer: the Screen
    fault,              \* "none", or the message of the panic that ended the program
    draws,              \* drawing calls made since the last fill
    last,               \* the last GameWindow call and its arguments
    prev_buffer,        \* the Screen when the last call was made
    calls,              \* the draw_line calls the last call issued, in order
    sorted,             \* fill_triangle's locals <<vec_left, vec_right, vec_mid>>
    near,               \* GameWindow.near
    far,                \* GameWindow.far
    fov,                \* GameWindow.fov, in degrees
    tick_count,         \* GameWindow.tick_count
    projection_matrix,  \* GameWindow.projection_matrix
    transform,          \* the Transform<3> made by mesh_transformation
    projected,          \* the Transform<2> returned by the last project
    source,             \* the mesh given to mesh_transformation
    chain,              \* chain operations applied so far
    tlast,              \* the last chain operation, its argument and the dimension
                        \* of the Transform it returned
    tprev,              \* the mesh the last chain operation was applied to
    applied,            \* the last conversion or product computed on its own:
                        \* the function, its argument, its result and, when the
                        \* argument was the result before, the argument before
    theta               \* main's angle of rotation, in quarter turns

rvars == <<width, height, shadow_intensity, buffer, fault, draws, last,
           prev_buffer, calls, sorted>>

wvars == <<near, far, fov, tick_count, projection_matrix>>

tvars == <<transform, projected, source, chain, tlast, tprev>>

evars == <<applied>>

fvars == <<theta>>

vars == <<rvars, wvars, tvars, evars, fvars>>

----------------------------------------------------------------------------
(* f32 arithmetic on exact rationals *)

Abs(i) == IF i < 0 THEN -i ELSE i

Sign(i) == IF i < 0 THEN -1 ELSE IF i > 0 THEN 1 ELSE 0

RECURSIVE GCD(_, _)
GCD(a, b) == IF b = 0 THEN a ELSE GCD(b, a % b)

\* the value n/d; x/0 is an infinity and 0/0 is NaN, as in IEEE 754
Q(n, d) ==
    IF d = 0 THEN <<Sign(n), 0>>
    ELSE LET g == GCD(Abs(n), Abs(d))
         IN  <<(Sign(d) * n) \div g, Abs(d) \div g>>

NaN == <<0, 0>>

IsNaN(a) == a[1] = 0 /\ a[2] = 0

IsInf(a) == a[1] # 0 /\ a[2] = 0

IsFinite(a) == a[2] # 0

FromInt(i) == <<i, 1>>

FNeg(a) == <<-a[1], a[2]>>

FAbs(a) == <<Abs(a[1]), a[2]>>

FAdd(a, b) ==
    IF IsNaN(a) \/ IsNaN(b) THEN NaN
    ELSE IF IsInf(a) /\ IsInf(b) THEN (IF a = b THEN a ELSE NaN)
    ELSE IF IsInf(a) THEN a
    ELSE IF IsInf(b) THEN b
    ELSE Q(a[1] * b[2] + b[1] * a[2], a[2] * b[2])

FSub(a, b) == FAdd(a, FNeg(b))

FMul(a, b) ==
    IF IsNaN(a) \/ IsNaN(b) THEN NaN
    ELSE Q(a[1] * b[1], a[2] * b[2])

FDiv(a, b) ==
    IF IsNaN(a) \/ IsNaN(b) THEN NaN
    ELSE IF IsInf(a) /\ IsInf(b) THEN NaN
    ELSE IF IsInf(b) THEN FromInt(0)
    ELSE Q(a[1] * Sign(b[1]) * b[2], a[2] * Abs(b[1]))

\* a < b; false when either side is NaN
FLt(a, b) ==
    /\ ~IsNaN(a)
    /\ ~IsNaN(b)
    /\ IF IsInf(a) \/ IsInf(b)
       THEN a # b /\ (a = <<-1, 0>> \/ b = <<1, 0>>)
       ELSE a[1] * b[2] < b[1] * a[2]

FGt(a, b) == FLt(b, a)

\* a == b on f32: NaN equals nothing
FEq(a, b) == ~IsNaN(a) /\ ~IsNaN(b) /\ a = b

\* f32::max: the other operand when one is NaN
FMax(a, b) ==
    IF IsNaN(a) THEN b
    ELSE IF IsNaN(b) THEN a
    ELSE IF FLt(a, b) THEN b ELSE a

\* f32::round: to the nearest integer, halfway cases away from zero
FRound(a) ==
    IF ~IsFinite(a) THEN a
    ELSE IF a[1] >= 0
         THEN FromInt((2 * a[1] + a[2]) \div (2 * a[2]))
         ELSE FromInt(-((2 * (-a[1]) + a[2]) \div (2 * a[2])))

\* usize::MAX, cut to the range of the model checker's integers
UsizeMax == 2147483647

\* usize addition that wraps around, as it does without overflow checks
usize_wrapping_add(a, b) ==
    IF a > UsizeMax - b THEN (a - (UsizeMax - b)) - 1 ELSE a + b

\* usize multiplication that wraps around, by doubling
RECURSIVE usize_wrapping_mul(_, _)
usize_wrapping_mul(a, b) ==
    IF b = 0 THEN 0
    ELSE LET half == usize_wrapping_mul(a, b \div 2)
             double == usize_wrapping_add(half, half)
         IN  IF b % 2 = 1 THEN usize_wrapping_add(double, a) ELSE double

\* whether the usize product a * b overflows
usize_mul_overflows(a, b) == b # 0 /\ a > UsizeMax \div b

\* `as usize` on an integral f32: saturating, NaN becomes 0
AsUsize(a) ==
    IF IsNaN(a) THEN 0
    ELSE IF IsInf(a) THEN (IF a[1] > 0 THEN UsizeMax ELSE 0)
    ELSE IF a[1] < 0 THEN 0
    ELSE a[1] \div a[2]

\* `as u8` keeping the low 8 bits of the integer
AsU8_wrapping(a) ==
    IF ~IsFinite(a) THEN 0 ELSE (a[1] \div a[2]) % 256

\* `as u8` on an integral f32: saturating, NaN becomes 0
AsU8(a) ==
    IF IsNaN(a) THEN 0
    ELSE IF IsInf(a) THEN (IF a[1] > 0 THEN 255 ELSE 0)
    ELSE IF a[1] < 0 THEN 0
    ELSE IF a[1] \div a[2] > 255 THEN 255
    ELSE a[1] \div a[2]

\* floor of the square root of a natural number, by bisection on lo..hi
RECURSIVE ISqrtIn(_, _, _)
ISqrtIn(n, lo, hi) ==
    IF lo >= hi THEN lo
    ELSE LET mid == (lo + hi + 1) \div 2
         IN  IF mid * mid <= n THEN ISqrtIn(n, mid, hi) ELSE ISqrtIn(n, lo, mid - 1)

ISqrt(n) == ISqrtIn(n, 0, IF n < 46340 THEN n ELSE 46340)

\* the natural number nearest to the square root of n
ISqrtNearest(n) ==
    LET r == ISqrt(n) IN IF n - r * r > r THEN r + 1 ELSE r

\* the precision square roots are rounded to when they are irrational
SqrtScale == 2 ^ 8

\* f32::sqrt: exact when the root is rational, else rounded to the nearest
\* multiple of 1 / (d * SqrtScale); NaN below zero
FSqrt(a) ==
    IF IsNaN(a) \/ a[1] < 0 THEN NaN
    ELSE IF IsInf(a) THEN a
    ELSE IF ISqrt(a[1]) * ISqrt(a[1]) = a[1] /\ ISqrt(a[2]) * ISqrt(a[2]) = a[2]
         THEN Q(ISqrt(a[1]), ISqrt(a[2]))
         ELSE Q(ISqrtNearest(a[1] * a[2] * SqrtScale * SqrtScale), a[2] * SqrtScale)

\* cos and sin of an angle given in quarter turns (k stands for k * pi / 2)
FCos(k) == FromInt(<<1, 0, -1, 0>>[(k % 4) + 1])

FSin(k) == FromInt(<<0, 1, 0, -1>>[(k % 4) + 1])

----------------------------------------------------------------------------
(* color.rs *)

\* a Color is <<r, g, b>>; (r << 16) | (g << 8) | b on 8-bit channels
to_u8_rgb(color) == color[1] * 65536 + color[2] * 256 + color[3]

\* from_u8_rgb without the mask on the red channel
from_u8_rgb_unmasked(u) == <<u \div 65536, (u \div 256) % 256, u % 256>>

\* ((u >> 16) & 255, (u >> 8) & 255, u & 255)
from_u8_rgb(u) == <<(u \div 65536) % 256, (u \div 256) % 256, u % 256>>

----------------------------------------------------------------------------
(* screen.rs *)

Repeat(v, n) == [i \in 1..n |-> v]

\* Screen::new; width * height wraps around when it overflows
Screen_new(w, h) ==
    [width |-> w, height |-> h, buffer |-> Repeat(0, usize_wrapping_mul(w, h))]

\* get_mut with the index computed column-major
get_mut_column_major(scr, x, y) ==
    IF x < scr.width /\ y < scr.height
    THEN (IF x * scr.height + y < Len(scr.buffer) THEN x * scr.height + y + 1 ELSE 0)
    ELSE 0

\* get_mut: the index of pixel (x, y) in the buffer, or 0 for None
get_mut(scr, x, y) ==
    IF x < scr.width /\ y < scr.height
    THEN (IF y * scr.width + x < Len(scr.buffer) THEN y * scr.width + x + 1 ELSE 0)
    ELSE 0

----------------------------------------------------------------------------
(* vector.rs: a Vector is the sequence of its coordinates *)

\* Sub for Vector
vector_sub(a, b) == [i \in 1..Len(a) |-> FSub(a[i], b[i])]

\* cross with the operands exchanged
cross_reversed(a, b) ==
    <<FSub(FMul(b[2], a[3]), FMul(b[3], a[2])),
      FSub(FMul(b[3], a[1]), FMul(b[1], a[3])),
      FSub(FMul(b[1], a[2]), FMul(b[2], a[1]))>>

\* Vector::cross
cross(a, b) ==
    <<FSub(FMul(a[2], b[3]), FMul(a[3], b[2])),
      FSub(FMul(a[3], b[1]), FMul(a[1], b[3])),
      FSub(FMul(a[1], b[2]), FMul(a[2], b[1]))>>

\* the sum of the first n products, summed from 0.0 in index order
RECURSIVE dot_upto(_, _, _)
dot_upto(a, b, n) ==
    IF n = 0 THEN FromInt(0)
    ELSE FAdd(dot_upto(a, b, n - 1), FMul(a[n], b[n]))

\* Vector::dot
dot(a, b) == dot_upto(a, b, Len(a))

\* Vector::normalize
vector_length(v) == FSqrt(dot_upto(v, v, Len(v)))

normalize(v) == [i \in 1..Len(v) |-> FDiv(v[i], vector_length(v))]

----------------------------------------------------------------------------
(* matrix.rs: a Matrix is the sequence of its rows matrix[x], so that the  *)
(* element indexed (x, y) is m[x + 1][y + 1]                               *)

Matrix_fill(value) == [x \in 1..4 |-> [y \in 1..4 |-> value]]

\* Matrix::fill(1.0) in place of the identity
identity_filled == [x \in 1..4 |-> [y \in 1..4 |-> FromInt(1)]]

\* Matrix::identity
identity == [x \in 1..4 |-> [y \in 1..4 |->
                IF x = y THEN FromInt(1) ELSE FromInt(0)]]

\* one of the four sums of Mul: column y of the matrix against (rhs, 1)
matrix_mul_sum(m, rhs, y) ==
    FAdd(FAdd(FAdd(FMul(rhs[1], m[1][y]), FMul(rhs[2], m[2][y])),
              FMul(rhs[3], m[3][y])),
         m[4][y])

\* Mul dividing by w whatever its value
matrix_mul_always_divided(m, rhs) ==
    [y \in 1..3 |-> FDiv(matrix_mul_sum(m, rhs, y), matrix_mul_sum(m, rhs, 4))]

\* Mul<Vector<3>> for Matrix<4, 4, f32>
matrix_mul(m, rhs) ==
    LET w == matrix_mul_sum(m, rhs, 4)
    IN  IF ~FEq(w, FromInt(0))
        THEN [y \in 1..3 |-> FDiv(matrix_mul_sum(m, rhs, y), w)]
        ELSE [y \in 1..3 |-> matrix_mul_sum(m, rhs, y)]

----------------------------------------------------------------------------
(* triangle.rs, mesh.rs: a Triangle is [vecs, lum], a Mesh the sequence of *)
(* its triangles                                                           *)

\* From<(V, V, V)> for Triangle
Triangle_from(x, y, z) == [vecs |-> <<x, y, z>>, lum |-> FromInt(1)]

\* Triangle::normal
normal(triangle) ==
    normalize(cross(vector_sub(triangle.vecs[2], triangle.vecs[1]),
                    vector_sub(triangle.vecs[3], triangle.vecs[1])))

----------------------------------------------------------------------------
(* transform.rs *)

generate_x_rotation_matrix(angle) ==
    [identity EXCEPT ![2][2] = FCos(angle), ![2][3] = FSin(angle),
                     ![3][2] = FNeg(FSin(angle)), ![3][3] = FCos(angle)]

generate_y_rotation_matrix(angle) ==
    [identity EXCEPT ![1][1] = FCos(angle), ![1][3] = FNeg(FSin(angle)),
                     ![3][1] = FSin(angle), ![3][3] = FCos(angle)]

generate_z_rotation_matrix(angle) ==
    [identity EXCEPT ![1][1] = FCos(angle), ![1][2] = FSin(angle),
                     ![2][1] = FNeg(FSin(angle)), ![2][2] = FCos(angle)]

\* the closures the chain operations map over the vertices of a triangle
vector_closure(op, arg, vector) ==
    CASE op = "translate" -> [i \in 1..Len(vector) |-> FAdd(vector[i], arg[i])]
      [] op = "scale" -> [i \in 1..Len(vector) |-> FMul(vector[i], arg[i])]
      [] op = "rotate_x" -> matrix_mul(generate_x_rotation_matrix(arg), vector)
      [] op = "rotate_y" -> matrix_mul(generate_y_rotation_matrix(arg), vector)
      [] op = "rotate_z" -> matrix_mul(generate_z_rotation_matrix(arg), vector)

\* Triangle::transform building the triangle with the default luminance
triangle_transform_relit(triangle, op, arg) ==
    [vecs |-> [i \in 1..3 |-> vector_closure(op, arg, triangle.vecs[i])],
     lum |-> FromInt(1)]

\* Triangle::transform
triangle_transform(triangle, op, arg) ==
    [vecs |-> [i \in 1..3 |-> vector_closure(op, arg, triangle.vecs[i])],
     lum |-> triangle.lum]

\* the closures the chain operations map over the triangles of a mesh
triangle_closure(op, arg, triangle) ==
    IF op = "apply_luminance"
    THEN [triangle EXCEPT !.lum = dot(normal(triangle), arg)]
    ELSE triangle_transform(triangle, op, arg)

\* Mesh::transform losing the last triangle
mesh_transform_short(mesh, op, arg) ==
    [i \in 1..(Len(mesh) - 1) |-> triangle_closure(op, arg, mesh[i])]

\* Mesh::transform
mesh_transform(mesh, op, arg) ==
    [i \in 1..Len(mesh) |-> triangle_closure(op, arg, mesh[i])]

\* the test of normalize_filter's filter, keeping edge-on triangles
faces_camera_or_edge_on(triangle, camera) ==
    \/ FLt(dot(normal(triangle), vector_sub(triangle.vecs[1], camera)), FromInt(0))
    \/ FEq(dot(normal(triangle), vector_sub(triangle.vecs[1], camera)), FromInt(0))

\* the test of normalize_filter's filter
faces_camera(triangle, camera) ==
    FLt(dot(normal(triangle), vector_sub(triangle.vecs[1], camera)), FromInt(0))

\* normalize_filter collecting the kept triangles from the last to the first
normalize_filter_reversed(mesh, camera) ==
    LET kept == SelectSeq(mesh, LAMBDA triangle : faces_camera(triangle, camera))
    IN  [i \in 1..Len(kept) |-> kept[Len(kept) + 1 - i]]

\* Transform::normalize_filter
normalize_filter(mesh, camera) ==
    SelectSeq(mesh, LAMBDA triangle : faces_camera(triangle, camera))

\* Transform::project building its triangles with the default luminance
project_unlit(mesh, projection) ==
    [i \in 1..Len(mesh) |->
        [vecs |-> [j \in 1..3 |->
                    SubSeq(matrix_mul(projection, mesh[i].vecs[j]), 1, 2)],
         lum |-> FromInt(1)]]

\* Transform::project: the mesh of the 2D Transform
project(mesh, projection) ==
    [i \in 1..Len(mesh) |->
        [vecs |-> [j \in 1..3 |->
                    SubSeq(matrix_mul(projection, mesh[i].vecs[j]), 1, 2)],
         lum |-> mesh[i].lum]]

\* Transform::new
Transform_new(mesh, projection) ==
    [live |-> TRUE, mesh |-> mesh, projection_matrix |-> projection]

\* Transform::project handing on the identity in place of its matrix
Transform_project_reset(t) ==
    [live |-> TRUE, mesh |-> project(t.mesh, t.projection_matrix),
     projection_matrix |-> identity]

\* Transform::project: the Transform<2> returned
Transform_project(t) ==
    [live |-> TRUE, mesh |-> project(t.mesh, t.projection_matrix),
     projection_matrix |-> t.projection_matrix]

----------------------------------------------------------------------------
(* game_window.rs: the rasterizer *)

\* tan of half a field of view given in degrees (90 degrees: tan 45 = 1)
tan_half_degrees(degrees) == CASE degrees = 90 -> FromInt(1)
                               [] degrees = 0 -> FromInt(0)

\* generate_projection_matrix with the near-far offset put in column 0
generate_projection_matrix_misplaced(aspect_ratio, fov_rad, near_, far_) ==
    [Matrix_fill(FromInt(0)) EXCEPT
        ![1][1] = FMul(aspect_ratio, fov_rad),
        ![2][2] = fov_rad,
        ![3][3] = FDiv(far_, FSub(far_, near_)),
        ![4][1] = FDiv(FMul(FNeg(far_), near_), FSub(far_, near_)),
        ![3][4] = FromInt(1),
        ![4][4] = FromInt(1)]

generate_projection_matrix(aspect_ratio, fov_rad, near_, far_) ==
    [Matrix_fill(FromInt(0)) EXCEPT
        ![1][1] = FMul(aspect_ratio, fov_rad),
        ![2][2] = fov_rad,
        ![3][3] = FDiv(far_, FSub(far_, near_)),
        ![4][3] = FDiv(FMul(FNeg(far_), near_), FSub(far_, near_)),
        ![3][4] = FromInt(1),
        ![4][4] = FromInt(1)]

\* update_view: the projection matrix of a window
update_view_matrix(w, h, fov_, near_, far_) ==
    generate_projection_matrix(FDiv(FromInt(h), FromInt(w)),
                               FDiv(FromInt(1), tan_half_degrees(fov_)),
                               near_, far_)

\* draw: the Screen after plotting point p
draw(scr, p, color) ==
    LET px == AsUsize(FRound(p[1]))
        py == AsUsize(FRound(p[2]))
        point == get_mut(scr, px, py)
    IN  IF point # 0
        THEN [scr EXCEPT !.buffer[point] = to_u8_rgb(color)]
        ELSE scr

draw_line_steps(p1, p2) ==
    LET dx == FSub(p1[1], p2[1])
        dy == FSub(p1[2], p2[2])
    IN  AsUsize(FRound(FMax(FAbs(dx), FAbs(dy))))

\* the point draw_line plots at step i of steps
draw_line_point(p1, p2, steps, i) ==
    LET steps_progress == FDiv(FromInt(i), FromInt(steps))
        x == FAdd(p1[1], FMul(FSub(p2[1], p1[1]), steps_progress))
        y == FAdd(p1[2], FMul(FSub(p2[2], p1[2]), steps_progress))
    IN  <<x, y>>

\* the loop of draw_line from step i on (a Screen without pixels stays as it is)
RECURSIVE draw_line_from(_, _, _, _, _, _)
draw_line_from(scr, p1, p2, color, steps, i) ==
    IF i > steps \/ scr.buffer = <<>> THEN scr
    ELSE draw_line_from(draw(scr, draw_line_point(p1, p2, steps, i), color),
                        p1, p2, color, steps, i + 1)

\* draw_line: the Screen after the loop over 0..=steps
draw_line(scr, p1, p2, color) ==
    draw_line_from(scr, p1, p2, color, draw_line_steps(p1, p2), 0)

\* the Screen after a sequence of draw_line calls <<p1, p2, color>> (a Screen
\* without pixels stays as it is)
RECURSIVE draw_lines(_, _)
draw_lines(scr, cs) ==
    IF cs = <<>> \/ scr.buffer = <<>> THEN scr
    ELSE draw_lines(draw_line(scr, cs[1][1], cs[1][2], cs[1][3]), Tail(cs))

\* draw_shape_calls without the closing line
draw_shape_calls_open(points, color) ==
    [i \in 1..(Len(points) - 1) |-> <<points[i], points[i + 1], color>>]

\* draw_shape: the draw_line calls issued for at least two points
draw_shape_calls(points, color) ==
    [i \in 1..Len(points) |->
        IF i < Len(points)
        THEN <<points[i], points[i + 1], color>>
        ELSE <<points[1], points[Len(points)], color>>]

\* draw_shape rejecting only the empty list
draw_shape_nonempty(scr, points, color) ==
    IF Len(points) < 1
    THEN [panic |-> TRUE, calls |-> <<>>, screen |-> scr]
    ELSE [panic |-> FALSE, calls |-> draw_shape_calls(points, color),
          screen |-> draw_lines(scr, draw_shape_calls(points, color))]

\* draw_shape: whether it panics, the draw_line calls issued and the Screen after
draw_shape(scr, points, color) ==
    IF Len(points) < 2
    THEN [panic |-> TRUE, calls |-> <<>>, screen |-> scr]
    ELSE [panic |-> FALSE, calls |-> draw_shape_calls(points, color),
          screen |-> draw_lines(scr, draw_shape_calls(points, color))]

\* apply_color_luminance scaling by the luminance alone
apply_color_luminance_unshadowed(color, luminance, shadow) ==
    <<AsU8(FRound(FMul(FromInt(color[1]), luminance))),
      AsU8(FRound(FMul(FromInt(color[2]), luminance))),
      AsU8(FRound(FMul(FromInt(color[3]), luminance)))>>

\* apply_color_luminance
apply_color_luminance(color, luminance, shadow) ==
    LET lum == FSub(FromInt(1), FMul(FSub(FromInt(1), luminance), shadow))
    IN  <<AsU8(FRound(FMul(FromInt(color[1]), lum))),
          AsU8(FRound(FMul(FromInt(color[2]), lum))),
          AsU8(FRound(FMul(FromInt(color[3]), lum)))>>

\* Vec::remove(i), i counted from 0
Remove(s, i) == SubSeq(s, 1, i) \o SubSeq(s, i + 2, Len(s))

\* min_x_step keeping the earlier index on a tie
min_x_step_first(vecs, min, current) ==
    IF FLt(vecs[current + 1][1], vecs[min + 1][1]) THEN current ELSE min

\* the closure reduced over 0..3 to find min_x_index (indices from 0)
min_x_step(vecs, min, current) ==
    IF FLt(vecs[min + 1][1], vecs[current + 1][1]) THEN min ELSE current

\* the closure reduced over 0..3 to find max_x_index (indices from 0)
max_x_step(vecs, min, current) ==
    IF FGt(vecs[min + 1][1], vecs[current + 1][1]) THEN min ELSE current

min_x_index(vecs) == min_x_step(vecs, min_x_step(vecs, 0, 1), 2)

max_x_index(vecs) == max_x_step(vecs, max_x_step(vecs, 0, 1), 2)

\* the index of the second removal, without the shift for the vertex removed
remove_right_index_unshifted(mn, mx) == mx

\* the index given to the second vecs.remove, which picks vec_right
remove_right_index(mn, mx) == IF mx < mn THEN mx ELSE mx - 1

\* fill_triangle's <<vec_left, vec_right, vec_mid>>
fill_triangle_sort(vecs) ==
    LET mn == min_x_index(vecs)
        mx == max_x_index(vecs)
        rest == Remove(vecs, mn)
        ri == remove_right_index(mn, mx)
    IN  <<vecs[mn + 1], rest[ri + 1], Remove(rest, ri)[1]>>

\* the draw_line call of step i of fill_triangle's first loop
fill_left_call(l, r, m, steps_left, steps_full, color_lum, i) ==
    LET steps_progress_left == FDiv(FromInt(i), FromInt(steps_left))
        steps_progress_full == FDiv(FromInt(i), FromInt(steps_full))
        x == FAdd(l[1], FMul(FSub(m[1], l[1]), steps_progress_left))
        y1 == FAdd(l[2], FMul(FSub(m[2], l[2]), steps_progress_left))
        y2 == FAdd(l[2], FMul(FSub(r[2], l[2]), steps_progress_full))
    IN  <<(<<x, y1>>), (<<x, y2>>), color_lum>>

\* the draw_line call of step i of fill_triangle's second loop
fill_right_call(l, r, m, steps_left, steps_right, steps_full, color_lum, i) ==
    LET steps_progress_right == FDiv(FromInt(i), FromInt(steps_right))
        steps_progress_full == FDiv(FAdd(FromInt(steps_left), FromInt(i)),
                                    FromInt(steps_full))
        x == FAdd(m[1], FMul(FSub(r[1], m[1]), steps_progress_right))
        y1 == FAdd(m[2], FMul(FSub(r[2], m[2]), steps_progress_right))
        y2 == FAdd(l[2], FMul(FSub(r[2], l[2]), steps_progress_full))
    IN  <<(<<x, y1>>), (<<x, y2>>), color_lum>>

\* fill_triangle: whether a usize subtraction overflows, the message of the
\* panic if there is one (the second removal indexes past the two vertices
\* left, or a subtraction overflows), the sorted vertices and the draw_line
\* calls of the two loops
fill_triangle(triangle, color, shadow) ==
    LET color_lum == apply_color_luminance(color, triangle.lum, shadow)
        ri == remove_right_index(min_x_index(triangle.vecs),
                                 max_x_index(triangle.vecs))
        s == fill_triangle_sort(triangle.vecs)
        l == s[1]
        r == s[2]
        m == s[3]
        x_left == AsUsize(FRound(l[1]))
        x_right == AsUsize(FRound(r[1]))
        x_mid == AsUsize(FRound(m[1]))
        steps_full == x_right - x_left
        steps_left == x_mid - x_left
        steps_right == x_right - x_mid
    IN  IF ri \notin 0..1
        THEN [overflow |-> FALSE, panic |-> "removal index out of bounds",
              sorted |-> <<>>, calls |-> <<>>]
        ELSE IF steps_full < 0 \/ steps_left < 0 \/ steps_right < 0
        THEN [overflow |-> TRUE, panic |-> "attempt to subtract with overflow",
              sorted |-> s, calls |-> <<>>]
        ELSE [overflow |-> FALSE, panic |-> "none", sorted |-> s,
              calls |->
                [i \in 1..(steps_left + 1) |->
                    fill_left_call(l, r, m, steps_left, steps_full, color_lum, i - 1)]
                \o
                [i \in 1..(steps_right + 1) |->
                    fill_right_call(l, r, m, steps_left, steps_right, steps_full,
                                    color_lum, i - 1)]]

\* the concatenation of a sequence of sequences
RECURSIVE Flatten(_)
Flatten(ss) == IF ss = <<>> THEN <<>> ELSE ss[1] \o Flatten(Tail(ss))

\* the loop of fill_mesh over the results fs of fill_triangle, one for each
\* triangle in the order visited: it ends at the first panic
fill_mesh_loop(fs) ==
    LET bad == {i \in 1..Len(fs) : fs[i].panic # "none"}
        n == IF bad = {} THEN Len(fs) ELSE (CHOOSE i \in bad : \A j \in bad : i <= j) - 1
    IN  [overflow |-> bad # {},
         panic |-> IF bad = {} THEN "none" ELSE fs[n + 1].panic,
         calls |-> Flatten([i \in 1..n |-> fs[i].calls])]

\* fill_mesh visiting the triangles from the last to the first
fill_mesh_backwards(mesh, color, shadow) ==
    fill_mesh_loop(<<>> \o [i \in 1..Len(mesh) |->
                        fill_triangle(mesh[Len(mesh) + 1 - i], color, shadow)])

\* fill_mesh: whether a fill_triangle panics and the draw_line calls issued,
\* triangle after triangle
fill_mesh(mesh, color, shadow) ==
    fill_mesh_loop(<<>> \o [i \in 1..Len(mesh) |->
                        fill_triangle(mesh[i], color, shadow)])

\* draw_mesh: the draw_line calls issued, triangle after triangle
draw_mesh(mesh, color) ==
    Flatten([i \in 1..Len(mesh) |-> draw_shape_calls(mesh[i].vecs, color)])

----------------------------------------------------------------------------
(* The rasterizer as a state machine: the calls a caller can make on a     *)
(* GameWindow.  A panic ends the program.                                  *)

\* the window size given to GameWindow::new
Width0 == 3
Height0 == 2

\* the number of drawing calls followed after a fill
MaxDraws == 1

\* the colours of main.rs: the background and the mesh
Colors == {<<0, 0, 127>>, <<255, 255, 255>>}

Halves(lo, hi) == {Q(k, 2) : k \in (2 * lo)..(2 * hi)}

\* points given to draw: on, between and around the pixels of the window
DrawPoints == (Halves(-1, Width0) \cup {Q(-1, 4)}) \X Halves(-1, Height0)

\* endpoints given to draw_line
LinePoints == {<<FromInt(0), FromInt(0)>>, <<FromInt(1), FromInt(1)>>,
               <<Q(5, 4), FromInt(1)>>, <<FromInt(2), FromInt(0)>>,
               <<Q(1, 2), Q(3, 2)>>, <<FromInt(-1), FromInt(1)>>,
               <<Q(1, 4), FromInt(1)>>, <<Q(3, 2), FromInt(1)>>}

\* points given to draw_shape, in lists of up to MaxShape points
ShapePoints == {<<FromInt(0), FromInt(0)>>, <<FromInt(2), FromInt(0)>>,
                <<FromInt(1), FromInt(1)>>}

MaxShape == 3

ShapeLists == UNION {[1..n -> ShapePoints] : n \in 0..MaxShape}

\* vertices and luminances of the triangles given to fill_triangle
TrianglePoints == {<<FromInt(-2), FromInt(0)>>, <<FromInt(0), FromInt(1)>>,
                   <<FromInt(0), FromInt(0)>>, <<FromInt(1), FromInt(0)>>,
                   <<FromInt(2), FromInt(1)>>}

Luminances == {Q(1, 2)}

\* the colour main.rs fills the mesh with
MeshColor == <<255, 255, 255>>

NoCall == [op |-> "new", pts |-> <<>>, color |-> <<0, 0, 0>>, lum |-> FromInt(1)]

\* GameWindow::new with the shadow_intensity option
GameWindow_new(shadow) ==
    /\ width = Width0
    /\ height = Height0
    /\ shadow_intensity = shadow
    /\ buffer = Screen_new(Width0, Height0)
    /\ fault = "none"
    /\ draws = 0
    /\ last = NoCall
    /\ prev_buffer = buffer
    /\ calls = <<>>
    /\ sorted = <<>>
    /\ near = Q(1, 10)
    /\ far = FromInt(1000)
    /\ fov = 90
    /\ tick_count = 0
    /\ projection_matrix = update_view_matrix(Width0, Height0, 90, Q(1, 10),
                                              FromInt(1000))

\* GameWindow::new; shadow_intensity as main.rs sets it
RInit == GameWindow_new(Q(1, 2))

\* no Transform has been made yet
NoTransform == [live |-> FALSE, mesh |-> <<>>, projection_matrix |-> <<>>]

NoOp == [op |-> "none", arg |-> <<>>, dim |-> 3]

TInit ==
    /\ transform = NoTransform
    /\ projected = NoTransform
    /\ source = <<>>
    /\ chain = 0
    /\ tlast = NoOp
    /\ tprev = <<>>

\* nothing has been computed on its own yet
NoApplication == [fn |-> "none", arg |-> <<>>, out |-> <<>>, before |-> <<>>]

EInit == applied = NoApplication

\* main: let mut theta = 0.0
FInit == theta = 0

Init == RInit /\ TInit /\ EInit /\ FInit

\* shadow intensities from none to the full darkening range
ShadowIntensities == {FromInt(0), Q(1, 2), FromInt(1)}

\* a window made with any of these shadow intensities
InitShade ==
    (\E shadow \in ShadowIntensities : GameWindow_new(shadow)) /\ TInit /\ EInit
        /\ FInit

\* whether the build checks integer overflow: a build with the checks panics
\* where a build without them wraps around
OverflowChecks == BOOLEAN

\* GameWindow::fill
Fill ==
    /\ fault = "none"
    /\ \E color \in Colors, checked \in OverflowChecks :
        /\ fault' = IF checked /\ usize_mul_overflows(width, height)
                    THEN "attempt to multiply with overflow" ELSE fault
        /\ buffer' = IF checked /\ usize_mul_overflows(width, height)
                     THEN buffer
                     ELSE [buffer EXCEPT
                            !.buffer = Repeat(to_u8_rgb(color),
                                              usize_wrapping_mul(width, height))]
        /\ last' = [NoCall EXCEPT !.op = "fill", !.color = color]
    /\ prev_buffer' = buffer'
    /\ draws' = 0
    /\ calls' = <<>>
    /\ sorted' = <<>>
    /\ UNCHANGED <<width, height, shadow_intensity, wvars, tvars, evars, fvars>>

\* GameWindow::draw on one of the given points and colours
DrawOf(points, colors) ==
    /\ fault = "none"
    /\ draws < MaxDraws
    /\ \E p \in points, color \in colors :
        /\ buffer' = draw(buffer, p, color)
        /\ last' = [NoCall EXCEPT !.op = "draw", !.pts = <<p>>, !.color = color]
    /\ prev_buffer' = buffer
    /\ draws' = draws + 1
    /\ calls' = <<>>
    /\ sorted' = <<>>
    /\ UNCHANGED <<width, height, shadow_intensity, fault, wvars, tvars, evars, fvars>>

\* GameWindow::draw
Draw == DrawOf(DrawPoints, Colors)

\* GameWindow::draw_line between two of the given points
DrawLineOf(points, colors) ==
    /\ fault = "none"
    /\ draws < MaxDraws
    /\ \E p1 \in points, p2 \in points, color \in colors :
        /\ buffer' = draw_line(buffer, p1, p2, color)
        /\ last' = [NoCall EXCEPT !.op = "draw_line", !.pts = <<p1, p2>>,
                                  !.color = color]
        /\ calls' = << <<p1, p2, color>> >>
    /\ prev_buffer' = buffer
    /\ draws' = draws + 1
    /\ sorted' = <<>>
    /\ UNCHANGED <<width, height, shadow_intensity, fault, wvars, tvars, evars, fvars>>

\* GameWindow::draw_line
DrawLine == DrawLineOf(LinePoints, Colors)

\* GameWindow::draw_shape
DrawShape ==
    /\ fault = "none"
    /\ draws < MaxDraws
    /\ \E points \in ShapeLists :
       \E d \in {draw_shape(buffer, points, MeshColor)} :
        /\ last' = [NoCall EXCEPT !.op = "draw_shape", !.pts = points,
                                  !.color = MeshColor]
        /\ fault' = IF d.panic THEN "expected at least two points" ELSE fault
        /\ calls' = d.calls
        /\ buffer' = d.screen
    /\ prev_buffer' = buffer
    /\ draws' = draws + 1
    /\ sorted' = <<>>
    /\ UNCHANGED <<width, height, shadow_intensity, wvars, tvars, evars, fvars>>

\* GameWindow::fill_triangle on one of the given triangles and colours
FillTriangleOf(triangles, colors) ==
    /\ fault = "none"
    /\ draws < MaxDraws
    /\ \E triangle \in triangles, color \in colors :
        \E f \in {fill_triangle(triangle, color, shadow_intensity)} :
            /\ last' = [NoCall EXCEPT !.op = "fill_triangle", !.pts = triangle.vecs,
                                      !.color = color, !.lum = triangle.lum]
            /\ sorted' = f.sorted
            /\ calls' = f.calls
            /\ fault' = IF f.panic # "none" THEN f.panic ELSE fault
            /\ buffer' = draw_lines(buffer, f.calls)
    /\ prev_buffer' = buffer
    /\ draws' = draws + 1
    /\ UNCHANGED <<width, height, shadow_intensity, wvars, tvars, evars, fvars>>

\* the triangles given to fill_triangle
Triangles2 ==
    {[vecs |-> <<v1, v2, v3>>, lum |-> lum] :
        v1 \in TrianglePoints, v2 \in TrianglePoints, v3 \in TrianglePoints,
        lum \in Luminances}

\* GameWindow::fill_triangle
FillTriangle == FillTriangleOf(Triangles2, {MeshColor})

\* base colours with low, middle and high channels
ShadeColors == Colors \cup
    {<<1, 2, 3>>, <<63, 64, 65>>, <<126, 127, 128>>, <<129, 190, 191>>,
     <<192, 253, 254>>, <<255, 0, 10>>, <<100, 200, 50>>, <<5, 6, 7>>}

\* luminances from facing away from the light to facing it, and the
\* luminance 2 that a light vector of length 2 gives
ShadeLuminances == {FromInt(-1), Q(-1, 2), FromInt(0), Q(1, 2), FromInt(1),
                    FromInt(2)}

\* one small triangle with each of these luminances
ShadeTriangles ==
    {[vecs |-> <<(<<FromInt(0), FromInt(0)>>), (<<FromInt(1), FromInt(0)>>),
                 (<<FromInt(1), FromInt(1)>>)>>, lum |-> lum] :
        lum \in ShadeLuminances}

\* GameWindow::fill_triangle on one small triangle of any luminance and colour
ShadeTriangle == FillTriangleOf(ShadeTriangles, ShadeColors)

\* the triangles of the 2D meshes given to fill_mesh and draw_mesh: two that
\* overlap with different luminances and a small one inside both columns
MeshTriangles ==
    {[vecs |-> <<(<<FromInt(0), FromInt(0)>>), (<<FromInt(2), FromInt(0)>>),
                 (<<FromInt(2), FromInt(1)>>)>>, lum |-> FromInt(1)],
     [vecs |-> <<(<<FromInt(0), FromInt(0)>>), (<<FromInt(2), FromInt(1)>>),
                 (<<FromInt(0), FromInt(1)>>)>>, lum |-> Q(1, 2)],
     [vecs |-> <<(<<FromInt(1), FromInt(0)>>), (<<FromInt(2), FromInt(0)>>),
                 (<<FromInt(1), FromInt(1)>>)>>, lum |-> FromInt(0)]}

\* the number of triangles of those meshes
MaxMesh == 2

Meshes2 == UNION {[1..n -> MeshTriangles] : n \in 0..MaxMesh}

\* GameWindow::fill_mesh
FillMesh ==
    /\ fault = "none"
    /\ draws < MaxDraws
    /\ \E mesh \in Meshes2, color \in Colors :
        \E f \in {fill_mesh(mesh, color, shadow_intensity)} :
            /\ last' = [NoCall EXCEPT !.op = "fill_mesh", !.pts = mesh,
                                      !.color = color]
            /\ calls' = f.calls
            /\ fault' = IF f.panic # "none" THEN f.panic ELSE fault
            /\ buffer' = draw_lines(buffer, f.calls)
    /\ prev_buffer' = buffer
    /\ draws' = draws + 1
    /\ sorted' = <<>>
    /\ UNCHANGED <<width, height, shadow_intensity, wvars, tvars, evars, fvars>>

\* GameWindow::draw_mesh
DrawMesh ==
    /\ fault = "none"
    /\ draws < MaxDraws
    /\ \E mesh \in Meshes2 :
        \E cs \in {draw_mesh(mesh, MeshColor)} :
            /\ last' = [NoCall EXCEPT !.op = "draw_mesh", !.pts = mesh,
                                      !.color = MeshColor]
            /\ calls' = cs
            /\ buffer' = draw_lines(buffer, cs)
    /\ prev_buffer' = buffer
    /\ draws' = draws + 1
    /\ sorted' = <<>>
    /\ UNCHANGED <<width, height, shadow_intensity, fault, wvars, tvars, evars, fvars>>

\* pixels and lines
Next == Fill \/ Draw \/ DrawLine

Spec == Init /\ [][Next]_vars

\* polygon outlines
NextShape == Fill \/ DrawShape

SpecShape == Init /\ [][NextShape]_vars

\* filled triangles
NextTriangle == Fill \/ FillTriangle

SpecTriangle == Init /\ [][NextTriangle]_vars

\* shading
NextShade == Fill \/ ShadeTriangle

SpecShade == InitShade /\ [][NextShade]_vars

\* meshes
NextMesh == Fill \/ FillMesh \/ DrawMesh

SpecMesh == Init /\ [][NextMesh]_vars

----------------------------------------------------------------------------
(* The view of the window as a state machine: the setters, update and the  *)
(* drawing calls, in any order.                                            *)

\* the most pixels a Screen is given here
MaxPixels == 12

\* the number of update calls followed
MaxTicks == 1

\* a width or height whose square overflows usize
HugeSize == 65536

\* widths and heights given to set_width, set_height and set_size
Sizes == {0, Width0, HugeSize}

\* sizes of the underlying window, as window.get_size() returns them
WindowSizes == {<<Width0, Height0>>, <<2, 3>>}

Nears == {Q(1, 10), FromInt(1)}

Fars == {FromInt(1000), FromInt(1)}

Fovs == {90, 0}

\* update_view in a window of w by h, after ticks update calls: the
\* projection matrix, then the new Screen
update_view(w, h, fov_, near_, far_, ticks) ==
    /\ fault = "none"
    /\ usize_wrapping_mul(w, h) <= MaxPixels
    /\ width' = w
    /\ height' = h
    /\ fov' = fov_
    /\ near' = near_
    /\ far' = far_
    /\ tick_count' = ticks
    /\ projection_matrix' = update_view_matrix(w, h, fov_, near_, far_)
    /\ \E checked \in OverflowChecks :
        /\ fault' = IF checked /\ usize_mul_overflows(w, h)
                    THEN "attempt to multiply with overflow" ELSE fault
        /\ buffer' = IF checked /\ usize_mul_overflows(w, h)
                     THEN buffer ELSE Screen_new(w, h)
    /\ last' = [NoCall EXCEPT !.op = "update_view"]
    /\ prev_buffer' = buffer'
    /\ draws' = 0
    /\ calls' = <<>>
    /\ sorted' = <<>>
    /\ UNCHANGED <<shadow_intensity, tvars, evars, fvars>>

\* GameWindow::set_width
SetWidth ==
    \E w \in Sizes : update_view(w, height, fov, near, far, tick_count)

\* GameWindow::set_height
SetHeight ==
    \E h \in Sizes : update_view(width, h, fov, near, far, tick_count)

\* GameWindow::set_size
SetSize ==
    \E w \in Sizes, h \in Sizes : update_view(w, h, fov, near, far, tick_count)

\* GameWindow::set_near
SetNear ==
    \E n \in Nears : update_view(width, height, fov, n, far, tick_count)

\* GameWindow::set_far
SetFar ==
    \E f \in Fars : update_view(width, height, fov, near, f, tick_count)

\* GameWindow::set_fov
SetFov ==
    \E v \in Fovs : update_view(width, height, v, near, far, tick_count)

\* GameWindow::update when the underlying window has been resized
UpdateResized ==
    /\ tick_count < MaxTicks
    /\ \E size \in WindowSizes :
        /\ size[1] # width \/ size[2] # height
        /\ update_view(size[1], size[2], fov, near, far, tick_count + 1)

\* GameWindow::update when it has not
UpdateSameSize ==
    /\ fault = "none"
    /\ tick_count < MaxTicks
    /\ \E size \in WindowSizes : size[1] = width /\ size[2] = height
    /\ tick_count' = tick_count + 1
    /\ last' = [NoCall EXCEPT !.op = "update"]
    /\ prev_buffer' = buffer
    /\ calls' = <<>>
    /\ sorted' = <<>>
    /\ UNCHANGED <<width, height, shadow_intensity, buffer, fault, draws, near,
                   far, fov, projection_matrix, tvars, evars, fvars>>

\* GameWindow::update
Update == UpdateResized \/ UpdateSameSize

\* points given to draw and draw_line in the resized windows
ViewPoints == {<<FromInt(0), FromInt(0)>>, <<FromInt(2), FromInt(1)>>}

ViewColors == {MeshColor}

\* the triangle given to fill_triangle in the resized windows
ViewTriangles ==
    {[vecs |-> <<(<<FromInt(0), FromInt(0)>>), (<<FromInt(2), FromInt(0)>>),
                 (<<FromInt(2), FromInt(2)>>)>>, lum |-> FromInt(1)]}

ViewDraw == DrawOf(ViewPoints, ViewColors)

ViewDrawLine == DrawLineOf(ViewPoints, ViewColors)

ViewFillTriangle == FillTriangleOf(ViewTriangles, ViewColors)

NextView ==
    \/ SetWidth \/ SetHeight \/ SetSize \/ SetNear \/ SetFar \/ SetFov
    \/ Update
    \/ Fill \/ ViewDraw \/ ViewDrawLine \/ ViewFillTriangle

SpecView == Init /\ [][NextView]_vars

----------------------------------------------------------------------------
(* The transformation chain as a state machine: mesh_transformation makes  *)
(* the Transform, then the chain operations are called in any order.       *)

\* the number of chain operations followed
MaxChain == 3

V3(x, y, z) == <<FromInt(x), FromInt(y), FromInt(z)>>

\* main.rs: the two triangles of the cube's south face, one of its east face
\* and one of its west face
CubeMesh ==
    <<Triangle_from(V3(0, 0, 0), V3(0, 1, 0), V3(1, 1, 0)),
      Triangle_from(V3(0, 0, 0), V3(1, 1, 0), V3(1, 0, 0)),
      Triangle_from(V3(1, 0, 0), V3(1, 1, 0), V3(1, 1, 1)),
      Triangle_from(V3(0, 0, 1), V3(0, 1, 1), V3(0, 1, 0))>>

\* a mesh with a zero-area triangle, a slanted triangle, a south-face triangle
\* and the same triangle wound the other way
OddMesh ==
    <<Triangle_from(V3(0, 0, 0), V3(1, 1, 0), V3(2, 2, 0)),
      Triangle_from(V3(0, 0, 0), V3(1, 0, 0), V3(0, 1, 1)),
      Triangle_from(V3(0, 0, 0), V3(0, 1, 0), V3(1, 1, 0)),
      Triangle_from(V3(0, 0, 0), V3(1, 1, 0), V3(0, 1, 0))>>

Meshes == {CubeMesh, OddMesh}

Cameras == {V3(0, 0, -1), V3(0, 0, 1)}

Lights == {V3(0, 0, -1)}

Translations3 == {V3(0, 0, 2)}

Scales3 == {<<FromInt(2), FromInt(1), Q(1, 2)>>}

\* rotations by a quarter turn and by half a turn
Angles == {1, 2}

Translations2 == {<<FromInt(1), FromInt(1)>>}

Scales2 == {<<Q(1, 2), Q(1, 2)>>, <<FromInt(Width0), FromInt(Height0)>>}

\* GameWindow::mesh_transformation (Transform::new)
MeshTransformation ==
    /\ ~transform.live
    /\ \E mesh \in Meshes :
        /\ transform' = Transform_new(mesh, projection_matrix)
        /\ source' = mesh
    /\ tlast' = [op |-> "new", arg |-> <<>>, dim |-> 3]
    /\ UNCHANGED <<projected, chain, tprev, rvars, wvars, evars, fvars>>

\* a chain operation that maps Mesh::transform over the mesh of the Transform<3>
Map3(op, arg) ==
    /\ transform.live
    /\ chain < MaxChain
    /\ transform' = [transform EXCEPT !.mesh = mesh_transform(transform.mesh, op, arg)]
    /\ tlast' = [op |-> op, arg |-> arg, dim |-> 3]
    /\ tprev' = transform.mesh
    /\ chain' = chain + 1
    /\ UNCHANGED <<projected, source, rvars, wvars, evars, fvars>>

\* the same on the Transform<2>
Map2(op, arg) ==
    /\ projected.live
    /\ chain < MaxChain
    /\ projected' = [projected EXCEPT !.mesh = mesh_transform(projected.mesh, op, arg)]
    /\ tlast' = [op |-> op, arg |-> arg, dim |-> 2]
    /\ tprev' = projected.mesh
    /\ chain' = chain + 1
    /\ UNCHANGED <<transform, source, rvars, wvars, evars, fvars>>

\* Transform::translate
Translate == \E values \in Translations3 : Map3("translate", values)

\* Transform::scale
Scale == \E factors \in Scales3 : Map3("scale", factors)

\* Transform::rotate_x
RotateX == \E angle \in Angles : Map3("rotate_x", angle)

\* Transform::rotate_y
RotateY == \E angle \in Angles : Map3("rotate_y", angle)

\* Transform::rotate_z
RotateZ == \E angle \in Angles : Map3("rotate_z", angle)

\* Transform::apply_luminance
ApplyLuminance == \E light \in Lights : Map3("apply_luminance", light)

\* Transform::normalize_filter
NormalizeFilter ==
    /\ transform.live
    /\ chain < MaxChain
    /\ \E camera \in Cameras :
        /\ transform' = [transform EXCEPT
                            !.mesh = normalize_filter(transform.mesh, camera)]
        /\ tlast' = [op |-> "normalize_filter", arg |-> camera, dim |-> 3]
    /\ tprev' = transform.mesh
    /\ chain' = chain + 1
    /\ UNCHANGED <<projected, source, rvars, wvars, evars, fvars>>

\* Transform::project
Project ==
    /\ transform.live
    /\ chain < MaxChain
    /\ projected' = Transform_project(transform)
    /\ tlast' = [op |-> "project", arg |-> <<>>, dim |-> 2]
    /\ tprev' = transform.mesh
    /\ chain' = chain + 1
    /\ UNCHANGED <<transform, source, rvars, wvars, evars, fvars>>

\* Transform<2>::translate
Translate2 == \E values \in Translations2 : Map2("translate", values)

\* Transform<2>::scale
Scale2 == \E factors \in Scales2 : Map2("scale", factors)

NextTransform ==
    \/ MeshTransformation
    \/ Translate \/ Scale \/ RotateX \/ RotateY \/ RotateZ
    \/ NormalizeFilter \/ ApplyLuminance \/ Project
    \/ Translate2 \/ Scale2

SpecTransform == Init /\ [][NextTransform]_vars

----------------------------------------------------------------------------
(* The loop of main.rs: fill, the chain of transformations in the order    *)
(* main applies them, fill_mesh, and the new angle.                        *)

\* the angles the loop reaches, in quarter turns: whole multiples of a half turn
Thetas == {0, 2, 4, 6}

\* the chain of main.rs after mesh_transformation
main_chain(angle) ==
    <<[op |-> "rotate_z", arg |-> angle, dim |-> 3],
      [op |-> "rotate_x", arg |-> angle \div 2, dim |-> 3],
      [op |-> "translate", arg |-> V3(0, 0, 2), dim |-> 3],
      [op |-> "normalize_filter", arg |-> V3(0, 0, -1), dim |-> 3],
      [op |-> "apply_luminance", arg |-> normalize(V3(0, 0, -1)), dim |-> 3],
      [op |-> "project", arg |-> <<>>, dim |-> 2],
      [op |-> "translate", arg |-> <<FromInt(1), FromInt(1)>>, dim |-> 2],
      [op |-> "scale", arg |-> <<Q(1, 2), Q(1, 2)>>, dim |-> 2],
      [op |-> "scale", arg |-> <<FromInt(width), FromInt(height)>>, dim |-> 2]>>

\* window.fill at the top of the loop body
FrameFill ==
    /\ ~transform.live
    /\ last.op # "fill"
    /\ Fill

\* window.mesh_transformation(&cube)
FrameTransform ==
    /\ last.op = "fill"
    /\ MeshTransformation

\* the next operation of the chain
FrameStep ==
    /\ transform.live
    /\ chain < Len(main_chain(theta))
    /\ \E step \in {main_chain(theta)[chain + 1]} :
        /\ tlast' = step
        /\ tprev' = IF step.dim = 2 /\ step.op # "project"
                    THEN projected.mesh ELSE transform.mesh
        /\ transform' =
            IF step.dim = 2 THEN transform
            ELSE IF step.op = "normalize_filter"
            THEN [transform EXCEPT !.mesh = normalize_filter(transform.mesh, step.arg)]
            ELSE [transform EXCEPT
                    !.mesh = mesh_transform(transform.mesh, step.op, step.arg)]
        /\ projected' =
            IF step.dim = 3 THEN projected
            ELSE IF step.op = "project" THEN Transform_project(transform)
            ELSE [projected EXCEPT
                    !.mesh = mesh_transform(projected.mesh, step.op, step.arg)]
    /\ chain' = chain + 1
    /\ UNCHANGED <<source, rvars, wvars, evars, fvars>>

\* .mesh(), window.fill_mesh(&cube_projected, (255, 255, 255)) and the new theta
FrameFillMesh ==
    /\ fault = "none"
    /\ projected.live
    /\ chain = Len(main_chain(theta))
    /\ \E f \in {fill_mesh(projected.mesh, MeshColor, shadow_intensity)} :
        /\ last' = [NoCall EXCEPT !.op = "fill_mesh", !.pts = projected.mesh,
                                  !.color = MeshColor]
        /\ calls' = f.calls
        /\ fault' = IF f.panic # "none" THEN f.panic ELSE fault
        /\ buffer' = draw_lines(buffer, f.calls)
    /\ prev_buffer' = buffer
    /\ draws' = draws + 1
    /\ sorted' = <<>>
    /\ theta' \in Thetas
    /\ transform' = NoTransform
    /\ projected' = NoTransform
    /\ chain' = 0
    /\ tlast' = NoOp
    /\ tprev' = <<>>
    /\ UNCHANGED <<width, height, shadow_intensity, source, wvars, evars>>

NextFrame == FrameFill \/ FrameTransform \/ FrameStep \/ FrameFillMesh

SpecFrame == Init /\ [][NextFrame]_vars

----------------------------------------------------------------------------
(* The conversions of color.rs and the product of matrix.rs, each called   *)
(* on its own with arguments of the caller's choice.                       *)

\* channels at and next to the ends and the middle of the 8-bit range
Channels == {0, 1, 127, 128, 255}

PackColors == Channels \X Channels \X Channels

\* u32 values up to 2^31 - 1, with and without bits above the low 24
Words == {0, 127, 255, 256, 65535, 65536, 8355711, 16777215, 16777216,
          16777471, 2131899478, 2147483647}

\* coordinates of the vectors multiplied
Coordinates == {FromInt(-1), FromInt(0), Q(1, 2), FromInt(2)}

Vectors3 == Coordinates \X Coordinates \X Coordinates

\* matrices multiplied: the window's projection matrix, a rotation, a matrix
\* whose last column is zero and a matrix without zero entries
Matrices4 ==
    {projection_matrix,
     generate_x_rotation_matrix(1),
     [x \in 1..4 |-> [y \in 1..4 |-> IF y = 4 THEN FromInt(0) ELSE FromInt(x + y)]],
     [x \in 1..4 |-> [y \in 1..4 |-> Q(2 * x - 3 * y + 1, 2)]]}

\* Color::to_u8_rgb
ToU8Rgb ==
    /\ \E color \in PackColors :
        applied' = [fn |-> "to_u8_rgb", arg |-> color, out |-> to_u8_rgb(color),
                    before |-> <<>>]
    /\ UNCHANGED <<rvars, wvars, tvars, fvars>>

\* Color::from_u8_rgb
FromU8Rgb ==
    /\ \E u \in Words :
        applied' = [fn |-> "from_u8_rgb", arg |-> u, out |-> from_u8_rgb(u),
                    before |-> <<>>]
    /\ UNCHANGED <<rvars, wvars, tvars, fvars>>

\* Color::from_u8_rgb on the value to_u8_rgb has just returned
FromU8RgbBack ==
    /\ applied.fn = "to_u8_rgb"
    /\ applied.before = <<>>
    /\ applied' = [fn |-> "from_u8_rgb", arg |-> applied.out,
                   out |-> from_u8_rgb(applied.out), before |-> <<applied.arg>>]
    /\ UNCHANGED <<rvars, wvars, tvars, fvars>>

\* Color::to_u8_rgb on the colour from_u8_rgb has just returned
ToU8RgbBack ==
    /\ applied.fn = "from_u8_rgb"
    /\ applied.before = <<>>
    /\ applied' = [fn |-> "to_u8_rgb", arg |-> applied.out,
                   out |-> to_u8_rgb(applied.out), before |-> <<applied.arg>>]
    /\ UNCHANGED <<rvars, wvars, tvars, fvars>>

\* matrix * vector
MatrixMul ==
    /\ \E m \in Matrices4, v \in Vectors3 :
        applied' = [fn |-> "mul", arg |-> <<m, v>>, out |-> matrix_mul(m, v),
                    before |-> <<>>]
    /\ UNCHANGED <<rvars, wvars, tvars, fvars>>

\* Matrix::identity() * vector
IdentityMul ==
    /\ \E v \in Vectors3 :
        applied' = [fn |-> "identity_mul", arg |-> <<identity, v>>,
                    out |-> matrix_mul(identity, v), before |-> <<>>]
    /\ UNCHANGED <<rvars, wvars, tvars, fvars>>

NextPure ==
    \/ ToU8Rgb \/ FromU8Rgb \/ FromU8RgbBack \/ ToU8RgbBack
    \/ MatrixMul \/ IdentityMul

SpecPure == Init /\ [][NextPure]_vars

----------------------------------------------------------------------------
(* Properties of the rasterizer *)

\* the pixel a point rounds to, as integers
PixelX(p) == FRound(p[1])[1]
PixelY(p) == FRound(p[2])[1]

\* the rounded coordinates of p lie inside the window
InWindow(p) ==
    /\ 0 <= PixelX(p) /\ PixelX(p) < width
    /\ 0 <= PixelY(p) /\ PixelY(p) < height

\* R<<16 | G<<8 | B
Packed(color) == color[1] * 65536 + color[2] * 256 + color[3]

\* the colour of the pixel p rounds to
PixelAt(scr, p) == scr.buffer[PixelY(p) * width + PixelX(p) + 1]

\* C1: draw is a no-op, without fault, whenever the rounded coordinates of the
\* point lie outside the buffer, negative coordinates included.
C1_DrawOutsideIsNoOp ==
    (last.op = "draw" /\ ~InWindow(last.pts[1]))
        => (buffer = prev_buffer /\ fault = "none")

\* C2: draw of a point whose rounded coordinates (x, y) lie in the window sets
\* exactly the element at row-major index y*width + x to the packed colour and
\* leaves every other element unchanged.
C2_DrawInsideSetsOnePixel ==
    (last.op = "draw" /\ InWindow(last.pts[1])) =>
        /\ Len(buffer.buffer) = Len(prev_buffer.buffer)
        /\ \A i \in 1..Len(buffer.buffer) :
            buffer.buffer[i] =
                IF i = PixelY(last.pts[1]) * width + PixelX(last.pts[1]) + 1
                THEN Packed(last.color)
                ELSE prev_buffer.buffer[i]

\* a point off the first row and column is drawn over a filled background
C2_Witness ==
    /\ last.op = "draw"
    /\ InWindow(last.pts[1])
    /\ PixelX(last.pts[1]) = width - 1
    /\ PixelY(last.pts[1]) = height - 1
    /\ last.pts[1][1][2] = 2
    /\ prev_buffer.buffer[1] = Packed(<<0, 0, 127>>)
    /\ buffer.buffer[width * height] = Packed(<<255, 255, 255>>)

\* C8: draw_line between two distinct points plots the pixels at round(p1) and
\* round(p2): when both are in bounds, both hold the colour after the call.
C8_LineDrawsBothEndpoints ==
    (/\ last.op = "draw_line"
     /\ last.pts[1] # last.pts[2]
     /\ InWindow(last.pts[1])
     /\ InWindow(last.pts[2]))
        => /\ PixelAt(buffer, last.pts[1]) = Packed(last.color)
           /\ PixelAt(buffer, last.pts[2]) = Packed(last.color)

\* C9: draw_shape with fewer than 2 points fails with a panic before any pixel
\* is written; with 2 or more points it does not panic.
C9_ShortShapePanicsUnchanged ==
    last.op = "draw_shape" =>
        IF Len(last.pts) < 2
        THEN fault = "expected at least two points" /\ buffer = prev_buffer
        ELSE fault = "none"

\* draw_shape called with one point on a filled background
C9_Witness ==
    /\ last.op = "draw_shape"
    /\ Len(last.pts) = 1
    /\ fault = "expected at least two points"
    /\ buffer.buffer[1] = Packed(<<0, 0, 127>>)

\* the two endpoints of call i are the points a and b, in either order
Joins(i, a, b) ==
    \/ calls[i][1] = a /\ calls[i][2] = b
    \/ calls[i][1] = b /\ calls[i][2] = a

\* C10: draw_shape with n >= 2 points issues exactly n line draws: one between
\* each consecutive pair, then one joining the last point and the first, so
\* every point is an endpoint of two of them.
C10_ShapeIsClosedOutline ==
    (last.op = "draw_shape" /\ Len(last.pts) >= 2) =>
        LET n == Len(last.pts)
        IN  /\ Len(calls) = n
            /\ \A i \in 1..(n - 1) : Joins(i, last.pts[i], last.pts[i + 1])
            /\ Joins(n, last.pts[n], last.pts[1])
            /\ \A i \in 1..n : calls[i][3] = last.color
            /\ \A j \in 1..n :
                Cardinality({i \in 1..Len(calls) :
                    calls[i][1] = last.pts[j] \/ calls[i][2] = last.pts[j]}) >= 2
            /\ buffer = draw_lines(prev_buffer, calls)

\* an outline of three distinct points is drawn
C10_Witness ==
    /\ last.op = "draw_shape"
    /\ Len(last.pts) = 3
    /\ Cardinality({last.pts[j] : j \in 1..3}) = 3
    /\ fault = "none"
    /\ buffer # prev_buffer

\* x-coordinate of vertex i of the triangle last filled
VX(i) == last.pts[i][1]

\* the first vertex, in vertex order, of minimum x, and of maximum x
FirstMin == CHOOSE i \in 1..3 :
    /\ \A j \in 1..3 : ~FLt(VX(j), VX(i))
    /\ \A j \in 1..(i - 1) : FLt(VX(i), VX(j))
FirstMax == CHOOSE i \in 1..3 :
    /\ \A j \in 1..3 : ~FLt(VX(i), VX(j))
    /\ \A j \in 1..(i - 1) : FLt(VX(j), VX(i))

\* the last vertex, in vertex order, of minimum x; the last vertex of maximum
\* x among the other two; and the remaining vertex
LastMin == CHOOSE i \in 1..3 :
    /\ \A j \in 1..3 : ~FLt(VX(j), VX(i))
    /\ \A j \in (i + 1)..3 : FLt(VX(i), VX(j))
LastMaxOfRest == CHOOSE i \in (1..3) \ {LastMin} :
    /\ \A j \in (1..3) \ {LastMin} : ~FLt(VX(i), VX(j))
    /\ \A j \in ((i + 1)..3) \ {LastMin} : FLt(VX(j), VX(i))
Remaining == CHOOSE i \in 1..3 : i # LastMin /\ i # LastMaxOfRest

\* C6 as stated: left is the first vertex of minimum x, right the first vertex
\* of maximum x, mid one of the other vertices.
C6_FirstOccurrenceWins ==
    last.op = "fill_triangle" =>
        /\ sorted[1] = last.pts[FirstMin]
        /\ sorted[2] = last.pts[FirstMax]
        /\ \E i \in 1..3 : sorted[3] = last.pts[i]

\* C6 amended: fill_triangle classifies the vertices by x only; left is the
\* vertex of minimum x, the last in vertex order on a tie; right is the vertex
\* of maximum x among the other two, the later one on a tie; mid is the
\* remaining vertex.
C6_LastOccurrenceWins ==
    last.op = "fill_triangle" =>
        /\ sorted[1] = last.pts[LastMin]
        /\ sorted[2] = last.pts[LastMaxOfRest]
        /\ sorted[3] = last.pts[Remaining]

\* two different vertices tie for the minimum x and the later one is left
C6_Witness ==
    /\ last.op = "fill_triangle"
    /\ VX(1) = VX(2)
    /\ last.pts[1] # last.pts[2]
    /\ FLt(VX(1), VX(3))
    /\ sorted = <<last.pts[2], last.pts[3], last.pts[1]>>

\* the x positions of the draw_line calls issued
CallColumns == {calls[i][1][1] : i \in 1..Len(calls)}

\* C7: for integer x-coordinates xL < xM < xR, the x positions of the vertical
\* draw_line calls of fill_triangle are exactly the integers xL..=xR.
C7_ColumnsAreExactlyTheSpan ==
    (/\ last.op = "fill_triangle"
     /\ \A i \in 1..3 : IsFinite(VX(i)) /\ VX(i)[2] = 1
     /\ Cardinality({VX(i) : i \in 1..3}) = 3)
        => /\ \A i \in 1..Len(calls) : calls[i][1][1] = calls[i][2][1]
           /\ CallColumns = {FromInt(k) : k \in sorted[1][1][1]..sorted[2][1][1]}

\* a Screen no pixel of which holds a colour
Blank == [width |-> width, height |-> height, buffer |-> Repeat(-1, width * height)]

\* the pixels triangle t writes when it is filled on its own
Marked(scr) == {px \in 1..Len(scr.buffer) : scr.buffer[px] # -1}

WrittenBy(t) ==
    Marked(draw_lines(Blank, fill_triangle(t, last.color, shadow_intensity).calls))

\* the shaded colour of triangle t, packed
Shaded(t) == Packed(apply_color_luminance(last.color, t.lum, shadow_intensity))

Latest(S) == CHOOSE i \in S : \A j \in S : j <= i

\* C11: fill_mesh and draw_mesh process the triangles in mesh order with no
\* depth test: after fill_mesh every pixel written by some triangle holds the
\* shaded colour of the last triangle in mesh order that wrote it, and every
\* other pixel is as before; draw_mesh issues the three lines of triangle i
\* before those of triangle i + 1.
C11_LaterTrianglesPaintOver ==
    /\ (last.op = "fill_mesh" /\ fault = "none") =>
        \A written \in {<<>> \o [i \in 1..Len(last.pts) |-> WrittenBy(last.pts[i])]} :
        \A px \in 1..(width * height) :
            LET writers == {i \in 1..Len(last.pts) : px \in written[i]}
            IN  IF writers = {}
                THEN buffer.buffer[px] = prev_buffer.buffer[px]
                ELSE buffer.buffer[px] = Shaded(last.pts[Latest(writers)])
    /\ last.op = "draw_mesh" =>
        /\ Len(calls) = 3 * Len(last.pts)
        /\ \A i \in 1..Len(last.pts) : \A k \in 1..3 :
            {calls[3 * (i - 1) + k][1], calls[3 * (i - 1) + k][2]}
                = {last.pts[i].vecs[k], last.pts[i].vecs[(k % 3) + 1]}

\* a pixel written by two triangles of different shades holds the later one
C11_Witness ==
    /\ last.op = "fill_mesh"
    /\ fault = "none"
    /\ \E px \in 1..(width * height) : \E i, j \in 1..Len(last.pts) :
        /\ i < j
        /\ px \in WrittenBy(last.pts[i])
        /\ px \in WrittenBy(last.pts[j])
        /\ Shaded(last.pts[i]) # Shaded(last.pts[j])
        /\ buffer.buffer[px] = Shaded(last.pts[j])

\* round(channel * factor) for factor = 1 - (1 - luminance) * shadow_intensity,
\* in integers: factor = num / den, halves rounded away from zero
ScaledChannel(channel, luminance, shadow) ==
    LET den == luminance[2] * shadow[2]
        num == den - (luminance[2] - luminance[1]) * shadow[1]
        twice == 2 * channel * num
    IN  IF twice >= 0 THEN (twice + den) \div (2 * den)
        ELSE -((den - twice) \div (2 * den))

\* a value brought into the range of an 8-bit channel
Saturated(v) == IF v < 0 THEN 0 ELSE IF v > 255 THEN 255 ELSE v

\* the colour of every draw_line call of the last fill_triangle
FillColours == {calls[k][3] : k \in 1..Len(calls)}

\* C12 as stated: each channel of the fill colour is round(channel * factor);
\* with luminance 1 or shadow_intensity 0 the fill colour is the base colour.
C12_FillColourIsRoundedScale ==
    (last.op = "fill_triangle" /\ fault = "none") =>
        /\ FillColours =
            {[c \in 1..3 |-> ScaledChannel(last.color[c], last.lum, shadow_intensity)]}
        /\ (last.lum = FromInt(1) \/ shadow_intensity = FromInt(0)) =>
                FillColours = {last.color}

\* C12 amended: each channel of the fill colour is round(channel * factor)
\* saturated to 0..255 by the cast to u8; with luminance 1 or shadow_intensity
\* 0 the fill colour is the base colour.
C12_FillColourIsSaturatedRoundedScale ==
    (last.op = "fill_triangle" /\ fault = "none") =>
        /\ FillColours =
            {[c \in 1..3 |->
                Saturated(ScaledChannel(last.color[c], last.lum, shadow_intensity))]}
        /\ (last.lum = FromInt(1) \/ shadow_intensity = FromInt(0)) =>
                FillColours = {last.color}

\* a triangle is filled with a colour darkened to a rounded half
C12_Witness ==
    /\ last.op = "fill_triangle"
    /\ fault = "none"
    /\ last.color = <<126, 127, 128>>
    /\ last.lum = FromInt(0)
    /\ shadow_intensity = Q(1, 2)
    /\ FillColours = {<<63, 64, 64>>}

\* a draw_line call between equal points, or with a NaN coordinate
Degenerate(call) ==
    \/ call[1] = call[2]
    \/ \E e \in 1..2 : \E c \in 1..2 : IsNaN(call[e][c])

\* C18: draw_line with p1 = p2, and the draw_line calls fill_triangle makes
\* with the NaN coordinates of a zero x-span, change no pixel of the buffer.
C18_DegeneratesWriteNothing ==
    last.op \in {"draw_line", "fill_triangle"} =>
        \A k \in 1..Len(calls) :
            Degenerate(calls[k]) =>
                Marked(draw_line(Blank, calls[k][1], calls[k][2], calls[k][3])) = {}

----------------------------------------------------------------------------
(* Properties of the transformation chain *)

\* the mesh the last chain operation produced
Out == IF tlast.dim = 2 THEN projected.mesh ELSE transform.mesh

\* dot(normal(triangle), triangle[0] - camera)
CameraDot(triangle, camera) ==
    dot(normalize(cross(vector_sub(triangle.vecs[2], triangle.vecs[1]),
                        vector_sub(triangle.vecs[3], triangle.vecs[1]))),
        vector_sub(triangle.vecs[1], camera))

Negative(a) == FLt(a, FromInt(0))

Occurs(triangle, mesh) == \E j \in 1..Len(mesh) : mesh[j] = triangle

\* C3: normalize_filter(camera) keeps a triangle if and only if
\* dot(normal(triangle), triangle[0] - camera) < 0; every triangle whose dot
\* product is >= 0 is removed.
C3_FilterKeepsNegativeDot ==
    tlast.op = "normalize_filter" =>
        /\ \A j \in 1..Len(Out) : Negative(CameraDot(Out[j], tlast.arg))
        /\ \A i \in 1..Len(tprev) :
            Negative(CameraDot(tprev[i], tlast.arg)) <=> Occurs(tprev[i], Out)
        /\ \A j \in 1..Len(Out) : Occurs(Out[j], tprev)
        /\ Len(Out) = Cardinality({i \in 1..Len(tprev) :
                                    Negative(CameraDot(tprev[i], tlast.arg))})

\* one filter keeps a triangle, removes an edge-on one and removes a back-facing one
C3_Witness ==
    /\ tlast.op = "normalize_filter"
    /\ \E i \in 1..Len(tprev) : Negative(CameraDot(tprev[i], tlast.arg))
    /\ \E i \in 1..Len(tprev) :
        /\ CameraDot(tprev[i], tlast.arg) = FromInt(0)
        /\ ~Occurs(tprev[i], Out)
    /\ \E i \in 1..Len(tprev) :
        /\ FLt(FromInt(0), CameraDot(tprev[i], tlast.arg))
        /\ ~Occurs(tprev[i], Out)

\* the triangle (0,0,0), (0,1,0), (1,1,0)
SouthTriangle == <<V3(0, 0, 0), V3(0, 1, 0), V3(1, 1, 0)>>

\* normalize_filter was last applied, with this camera, to a mesh holding the
\* south triangle at index i
FilteredSouth(i, camera) ==
    /\ tlast.op = "normalize_filter"
    /\ tlast.arg = camera
    /\ i \in 1..Len(tprev)
    /\ tprev[i].vecs = SouthTriangle

\* C4 as stated: the normal of the south triangle is (0,0,1); the camera at
\* (0,0,-1) gives a dot product of 1 and the triangle is removed, the camera at
\* (0,0,1) gives -1 and the triangle is kept.
C4_SouthRemovedFromBehind ==
    \A i \in 1..Len(tprev) :
        /\ FilteredSouth(i, V3(0, 0, -1)) =>
            /\ normal(tprev[i]) = V3(0, 0, 1)
            /\ CameraDot(tprev[i], V3(0, 0, -1)) = FromInt(1)
            /\ ~Occurs(tprev[i], Out)
        /\ FilteredSouth(i, V3(0, 0, 1)) =>
            /\ normal(tprev[i]) = V3(0, 0, 1)
            /\ CameraDot(tprev[i], V3(0, 0, 1)) = FromInt(-1)
            /\ Occurs(tprev[i], Out)

\* C4 amended: the normal of the south triangle is (0,0,-1); the camera at
\* (0,0,-1) gives a dot product of -1 and the triangle is kept, the camera at
\* (0,0,1) gives 1 and the triangle is removed.
C4_SouthKeptFromFront ==
    \A i \in 1..Len(tprev) :
        /\ FilteredSouth(i, V3(0, 0, -1)) =>
            /\ normal(tprev[i]) = V3(0, 0, -1)
            /\ CameraDot(tprev[i], V3(0, 0, -1)) = FromInt(-1)
            /\ Occurs(tprev[i], Out)
        /\ FilteredSouth(i, V3(0, 0, 1)) =>
            /\ normal(tprev[i]) = V3(0, 0, -1)
            /\ CameraDot(tprev[i], V3(0, 0, 1)) = FromInt(1)
            /\ ~Occurs(tprev[i], Out)

\* the south triangle is filtered with the camera of main.rs and kept
C4_Witness ==
    \E i \in 1..Len(tprev) :
        /\ FilteredSouth(i, V3(0, 0, -1))
        /\ Occurs(tprev[i], Out)

VertexMaps == {"translate", "scale", "rotate_x", "rotate_y", "rotate_z"}

\* the coordinate a rotation leaves alone
Axis(op) == CASE op = "rotate_x" -> 1 [] op = "rotate_y" -> 2 [] op = "rotate_z" -> 3

\* triangle b is what the last operation makes of triangle a
ImageOf(a, b) ==
    CASE tlast.op = "translate" ->
            /\ b.lum = a.lum
            /\ \A j \in 1..3 : \A k \in 1..Len(a.vecs[j]) :
                b.vecs[j][k] = FAdd(a.vecs[j][k], tlast.arg[k])
      [] tlast.op = "scale" ->
            /\ b.lum = a.lum
            /\ \A j \in 1..3 : \A k \in 1..Len(a.vecs[j]) :
                b.vecs[j][k] = FMul(a.vecs[j][k], tlast.arg[k])
      [] tlast.op \in {"rotate_x", "rotate_y", "rotate_z"} ->
            /\ b.lum = a.lum
            /\ \A j \in 1..3 : b.vecs[j][Axis(tlast.op)] = a.vecs[j][Axis(tlast.op)]
      [] tlast.op = "apply_luminance" -> b.vecs = a.vecs
      [] tlast.op = "project" ->
            /\ b.lum = a.lum
            /\ \A j \in 1..3 : Len(b.vecs[j]) = 2

\* C5: the number of triangles never exceeds the number in the source mesh;
\* translate, scale, the rotations, apply_luminance and project leave the count
\* and the order unchanged, and only normalize_filter can lower the count.
C5_CountAndOrderPreserved ==
    /\ Len(transform.mesh) <= Len(source)
    /\ Len(projected.mesh) <= Len(source)
    /\ tlast.op \in VertexMaps \cup {"apply_luminance", "project"} =>
        /\ Len(Out) = Len(tprev)
        /\ \A i \in 1..Len(tprev) : ImageOf(tprev[i], Out[i])
    /\ tlast.op = "project" => transform.mesh = tprev
    /\ tlast.op = "normalize_filter" => Len(Out) <= Len(tprev)
    /\ tlast.op \in {"none", "new"} => transform.mesh = source

\* a filtered mesh that lost some but not all triangles is mapped further
C5_Witness ==
    /\ tlast.op \in VertexMaps
    /\ tlast.dim = 2
    /\ 0 < Len(Out)
    /\ Len(Out) < Len(source)

\* C13: project returns a 2D pipeline in which each vertex of triangle i is the
\* first two coordinates of projection_matrix * vertex of triangle i of the 3D
\* pipeline, with that triangle's luminance; count and order are unchanged and
\* the 3D pipeline is not modified.
C13_ProjectKeepsTwoCoordinates ==
    tlast.op = "project" =>
        /\ transform.mesh = tprev
        /\ transform.projection_matrix = projection_matrix
        /\ Len(projected.mesh) = Len(tprev)
        /\ \A i \in 1..Len(tprev) :
            /\ projected.mesh[i].lum = tprev[i].lum
            /\ \A j \in 1..3 :
                /\ Len(projected.mesh[i].vecs[j]) = 2
                /\ \A k \in 1..2 :
                    projected.mesh[i].vecs[j][k] =
                        matrix_mul(transform.projection_matrix, tprev[i].vecs[j])[k]

\* a shaded triangle is projected and the perspective division moves a vertex
C13_Witness ==
    /\ tlast.op = "project"
    /\ \E i \in 1..Len(tprev) :
        /\ tprev[i].lum # FromInt(1)
        /\ projected.mesh[i].lum = tprev[i].lum
        /\ \E j \in 1..3 :
            /\ tprev[i].vecs[j][3] # FromInt(0)
            /\ projected.mesh[i].vecs[j] # SubSeq(tprev[i].vecs[j], 1, 2)

----------------------------------------------------------------------------
(* Properties of the conversions and of the product *)

\* column y of the homogeneous product of (v, 1) with m
Homogeneous(m, v, y) ==
    LET h == v \o <<FromInt(1)>>
    IN  FAdd(FAdd(FAdd(FMul(h[1], m[1][y]), FMul(h[2], m[2][y])),
                  FMul(h[3], m[3][y])),
             FMul(h[4], m[4][y]))

\* C14: a 4x4 matrix times a 3D vector computes x, y, z, w as the homogeneous
\* product with a fourth input component of 1 and divides x, y, z by w exactly
\* when w # 0; when w = 0 the undivided x, y, z are returned and nothing is
\* divided by zero.
C14_DividesByNonzeroW ==
    applied.fn \in {"mul", "identity_mul"} =>
        LET m == applied.arg[1]
            v == applied.arg[2]
            w == Homogeneous(m, v, 4)
        IN  /\ Len(applied.out) = 3
            /\ \A k \in 1..3 :
                /\ w # FromInt(0) => applied.out[k] = FDiv(Homogeneous(m, v, k), w)
                /\ w = FromInt(0) => applied.out[k] = Homogeneous(m, v, k)
                /\ IsFinite(applied.out[k])

\* a product whose w is zero and whose undivided x, y, z are not all zero
C14_Witness ==
    /\ applied.fn = "mul"
    /\ Homogeneous(applied.arg[1], applied.arg[2], 4) = FromInt(0)
    /\ \E k \in 1..3 : applied.out[k] # FromInt(0)

\* the 4x4 matrix with 1 on the diagonal and 0 elsewhere
Diagonal ==
    << <<FromInt(1), FromInt(0), FromInt(0), FromInt(0)>>,
       <<FromInt(0), FromInt(1), FromInt(0), FromInt(0)>>,
       <<FromInt(0), FromInt(0), FromInt(1), FromInt(0)>>,
       <<FromInt(0), FromInt(0), FromInt(0), FromInt(1)>> >>

\* C15: Matrix::identity() has 1 on the diagonal and 0 elsewhere, and for
\* every 3D vector v, identity * v = v.
C15_IdentityLeavesVector ==
    applied.fn = "identity_mul" =>
        /\ applied.arg[1] = Diagonal
        /\ Homogeneous(applied.arg[1], applied.arg[2], 4) = FromInt(1)
        /\ applied.out = applied.arg[2]

\* the identity is multiplied by a vector with no zero coordinate
C15_Witness ==
    /\ applied.fn = "identity_mul"
    /\ applied.arg[2] = <<Q(1, 2), FromInt(-1), FromInt(2)>>
    /\ applied.out = <<Q(1, 2), FromInt(-1), FromInt(2)>>

\* C20: to_u8_rgb yields r * 65536 + g * 256 + b and from_u8_rgb(to_u8_rgb(c))
\* = c for every colour c with 8-bit channels; to_u8_rgb(from_u8_rgb(u)) =
\* u mod 2^24 for every u.
C20_PackingRoundTrips ==
    /\ applied.fn = "to_u8_rgb" =>
        applied.out = applied.arg[1] * 65536 + applied.arg[2] * 256 + applied.arg[3]
    /\ applied.fn = "from_u8_rgb" =>
        /\ \A c \in 1..3 : applied.out[c] \in 0..255
        /\ applied.before # <<>> => applied.out = applied.before[1]
    /\ (applied.fn = "to_u8_rgb" /\ applied.before # <<>>) =>
        applied.out = applied.before[1] % (2 ^ 24)

\* a value with bits above the low 24 is unpacked and packed again
C20_Witness ==
    /\ applied.fn = "to_u8_rgb"
    /\ applied.before = <<2131899478>>
    /\ applied.out = 1193046

----------------------------------------------------------------------------
(* Frame properties of the transformation chain *)

\* C16: after any sequence of translate, scale, rotate_x, rotate_y, rotate_z,
\* normalize_filter and apply_luminance calls the Transform's projection matrix
\* is the matrix given to Transform::new, and the Transform<2> returned by
\* project carries the same matrix, also through later 2D translate and scale
\* calls.
C16_ProjectionMatrixIsCarried ==
    /\ transform.live => transform.projection_matrix = projection_matrix
    /\ projected.live =>
        /\ projected.projection_matrix = transform.projection_matrix
        /\ projected.projection_matrix = projection_matrix

\* a 2D translate or scale follows the projection of a mesh changed in 3D
C16_Witness ==
    /\ projected.live
    /\ tlast.dim = 2
    /\ tlast.op \in {"translate", "scale"}
    /\ transform.mesh # source
    /\ projected.projection_matrix = projection_matrix
    /\ projection_matrix # identity

\* C19: translate, scale, rotate_x, rotate_y and rotate_z leave every
\* triangle's luminance unchanged; apply_luminance(light) leaves every vertex
\* unchanged and sets each triangle's luminance to dot(normal(triangle), light).
C19_VerticesAndLuminanceApart ==
    /\ tlast.op \in VertexMaps =>
        /\ Len(Out) = Len(tprev)
        /\ \A i \in 1..Len(tprev) : Out[i].lum = tprev[i].lum
    /\ tlast.op = "apply_luminance" =>
        /\ Len(Out) = Len(tprev)
        /\ \A i \in 1..Len(tprev) :
            /\ Out[i].vecs = tprev[i].vecs
            /\ Out[i].lum =
                dot(normalize(cross(vector_sub(tprev[i].vecs[2], tprev[i].vecs[1]),
                                    vector_sub(tprev[i].vecs[3], tprev[i].vecs[1]))),
                    tlast.arg)

\* a vertex map moves a triangle whose luminance apply_luminance has set
C19_Witness ==
    /\ tlast.op \in VertexMaps
    /\ tlast.dim = 3
    /\ \E i \in 1..Len(tprev) :
        /\ tprev[i].lum \notin {FromInt(1), NaN}
        /\ Out[i].lum = tprev[i].lum
        /\ Out[i].vecs # tprev[i].vecs

----------------------------------------------------------------------------
(* Properties of the loop of main.rs *)

\* the projection matrix as stated, for near = 0.1, far = 1000, f = 1 / tan(45
\* degrees) = 1 and aspect = height / width
StatedProjection ==
    [x \in 1..4 |-> [y \in 1..4 |->
        CASE x = 1 /\ y = 1 -> Q(height, width)
          [] x = 2 /\ y = 2 -> FromInt(1)
          [] x = 3 /\ y = 3 -> Q(10000, 9999)
          [] x = 4 /\ y = 3 -> Q(-1000, 9999)
          [] x = 3 /\ y = 4 -> FromInt(1)
          [] x = 4 /\ y = 4 -> FromInt(1)
          [] OTHER -> FromInt(0)]]

\* a vertex (0, 0, z) whose w = z * 1 + 1 is not zero
OnAxis(v) == v[1] = FromInt(0) /\ v[2] = FromInt(0) /\ v[3] # FromInt(-1)

\* where a vertex on the forward axis is after each number of chain operations
AxisImage(n) ==
    CASE n = 6 -> <<FromInt(0), FromInt(0)>>
      [] n = 7 -> <<FromInt(1), FromInt(1)>>
      [] n = 8 -> <<Q(1, 2), Q(1, 2)>>
      [] n = 9 -> <<Q(width, 2), Q(height, 2)>>

\* C17: the projection matrix has the stated entries; every vertex (0, 0, z)
\* with nonzero w projects to (0, 0), and translate([1,1]), scale([0.5,0.5]),
\* scale([width,height]) then place it at the screen centre (width/2, height/2).
C17_AxisVertexAtScreenCentre ==
    /\ projection_matrix = StatedProjection
    /\ (projected.live /\ chain \in 6..9) =>
        /\ Len(projected.mesh) = Len(transform.mesh)
        /\ \A i \in 1..Len(transform.mesh) : \A j \in 1..3 :
            OnAxis(transform.mesh[i].vecs[j]) =>
                projected.mesh[i].vecs[j] = AxisImage(chain)

\* the chain has ended with a vertex of the forward axis at the screen centre
C17_Witness ==
    /\ projected.live
    /\ chain = 9
    /\ \E i \in 1..Len(transform.mesh) : \E j \in 1..3 :
        /\ OnAxis(transform.mesh[i].vecs[j])
        /\ projected.mesh[i].vecs[j] = <<Q(width, 2), Q(height, 2)>>

----------------------------------------------------------------------------

\* whether n is the product w * h
IsProduct(n, w, h) ==
    IF w = 0 \/ h = 0 THEN n = 0 ELSE n % w = 0 /\ n \div w = h

\* C21: after any sequence of GameWindow operations (new, the setters, fill,
\* the drawing calls, update with or without a resize) the pixel buffer has
\* exactly width * height elements and the Screen's own width and height are
\* the GameWindow's.
C21_BufferMatchesSize ==
    fault = "none" =>
        /\ buffer.width = width
        /\ buffer.height = height
        /\ IsProduct(Len(buffer.buffer), width, height)

----------------------------------------------------------------------------

\* the column of a vertex: its x rounded and cast to usize
Column(v) == AsUsize(FRound(v[1]))

\* C22: in fill_triangle, for finite vertex coordinates, the columns satisfy
\* xL <= xM <= xR, so none of the subtractions xR - xL, xM - xL and xR - xM
\* underflows, and the removals that pick left, right and mid never index
\* out of range, also when all three x-coordinates are equal.
C22_ColumnsOrderedRemovalsInRange ==
    (/\ last.op = "fill_triangle"
     /\ \A i \in 1..3 : IsFinite(last.pts[i][1]) /\ IsFinite(last.pts[i][2]))
        => /\ fault = "none"
           /\ Column(sorted[1]) <= Column(sorted[3])
           /\ Column(sorted[3]) <= Column(sorted[2])
           /\ {sorted[1], sorted[2], sorted[3]} = {last.pts[i] : i \in 1..3}

\* a triangle whose three x-coordinates are equal has been filled without a panic
C22_Witness ==
    /\ last.op = "fill_triangle"
    /\ VX(1) = VX(2)
    /\ VX(2) = VX(3)
    /\ last.pts[1] # last.pts[2]
    /\ fault = "none"
    /\ Len(sorted) = 3
    /\ calls # <<>>

----------------------------------------------------------------------------

\* the pixel draw plots for point p: the rounded coordinates cast to usize
Pixel(p) == <<AsUsize(FRound(p[1])), AsUsize(FRound(p[2]))>>

\* the pixel draw_line plots at step i of the last call
StepPixel(i) ==
    Pixel(draw_line_point(last.pts[1], last.pts[2],
                          draw_line_steps(last.pts[1], last.pts[2]), i))

\* C23: draw_line leaves no gaps: for steps >= 1 the pixels plotted at
\* consecutive steps differ by at most 1 in x and at most 1 in y, so a vertical
\* line from (x, y1) to (x, y2) colours every pixel of its column between
\* round(y1) and round(y2).
C23_LineHasNoGaps ==
    (/\ last.op = "draw_line"
     /\ draw_line_steps(last.pts[1], last.pts[2]) >= 1)
        => /\ \A i \in 0..(draw_line_steps(last.pts[1], last.pts[2]) - 1) :
                /\ Abs(StepPixel(i + 1)[1] - StepPixel(i)[1]) <= 1
                /\ Abs(StepPixel(i + 1)[2] - StepPixel(i)[2]) <= 1
           /\ last.pts[1][1] = last.pts[2][1] =>
                \A y \in 0..(height - 1) :
                    (\/ Pixel(last.pts[1])[2] <= y /\ y <= Pixel(last.pts[2])[2]
                     \/ Pixel(last.pts[2])[2] <= y /\ y <= Pixel(last.pts[1])[2])
                        => \/ Pixel(last.pts[1])[1] >= width
                           \/ buffer.buffer[y * width + Pixel(last.pts[1])[1] + 1]
                                = to_u8_rgb(last.color)

----------------------------------------------------------------------------

\* whether a lies in the interval from lo to hi
Within(a, lo, hi) == ~FLt(a, FromInt(lo)) /\ ~FGt(a, FromInt(hi)) /\ ~IsNaN(a)

\* C25: the cast in apply_color_luminance saturates and never wraps: every
\* shaded channel lies in 0..=255, a negative product becomes 0 and a product
\* above 255 becomes 255; for luminance in [-1, 1] and shadow_intensity in
\* [0, 1] no shaded channel is above the base channel.
C25_ShadingSaturates ==
    (last.op = "fill_triangle" /\ fault = "none") =>
        \A shaded \in FillColours : \A c \in 1..3 :
            /\ shaded[c] \in 0..255
            /\ ScaledChannel(last.color[c], last.lum, shadow_intensity) < 0
                => shaded[c] = 0
            /\ ScaledChannel(last.color[c], last.lum, shadow_intensity) > 255
                => shaded[c] = 255
            /\ (Within(last.lum, -1, 1) /\ Within(shadow_intensity, 0, 1))
                => shaded[c] <= last.color[c]

\* a colour is shaded with factor 2: one channel stops at 255, the others double
C25_Witness ==
    /\ last.op = "fill_triangle"
    /\ fault = "none"
    /\ last.color = <<100, 200, 50>>
    /\ last.lum = FromInt(2)
    /\ shadow_intensity = FromInt(1)
    /\ FillColours = {<<200, 255, 100>>}

----------------------------------------------------------------------------

\* whether a can be had from b by leaving elements out
RECURSIVE IsSubsequence(_, _)
IsSubsequence(a, b) ==
    IF a = <<>> THEN TRUE
    ELSE IF b = <<>> THEN FALSE
    ELSE IF Head(a) = Head(b) /\ IsSubsequence(Tail(a), Tail(b)) THEN TRUE
    ELSE IsSubsequence(a, Tail(b))

\* the edge of a triangle from vertex 0 to vertex k
Edge(triangle, k) == vector_sub(triangle.vecs[k + 1], triangle.vecs[1])

Minor(a, b, i, j) == FSub(FMul(a[i], b[j]), FMul(a[j], b[i]))

\* a triangle without area: collinear or coincident vertices
ZeroArea(triangle) ==
    \A ij \in {<<2, 3>>, <<3, 1>>, <<1, 2>>} :
        Minor(Edge(triangle, 1), Edge(triangle, 2), ij[1], ij[2]) = FromInt(0)

\* C24: the mesh after normalize_filter is a subsequence of the mesh before
\* it: the kept triangles are in their original relative order with vertices
\* and luminance unchanged, and a triangle without area, whose normal is NaN,
\* is always removed.
C24_FilterKeepsSubsequence ==
    tlast.op = "normalize_filter" =>
        /\ IsSubsequence(Out, tprev)
        /\ \A j \in 1..Len(Out) : ~ZeroArea(Out[j])
        /\ \A i \in 1..Len(tprev) :
            ZeroArea(tprev[i]) =>
                /\ \E k \in 1..3 : IsNaN(normal(tprev[i])[k])
                /\ ~faces_camera(tprev[i], tlast.arg)

\* a filter removes a triangle without area and keeps two different triangles
C24_Witness ==
    /\ tlast.op = "normalize_filter"
    /\ \E i \in 1..Len(tprev) : ZeroArea(tprev[i])
    /\ Len(Out) >= 2
    /\ Out[1] # Out[2]
    /\ Len(Out) < Len(tprev)
====
